---------------------------- MODULE Spec2Model ----------------------------
(***************************************************************************)
(* Model of the marathon-scripts reporting scripts:                        *)
(*   - flattenTransactionsAudit (finance-weekly-internal-audit/Code.js):   *)
(*     watermark-based flattening of wide audit rows;                      *)
(*   - sendFormattedEmail (finance-weekly-internal-audit/Code.js):         *)
(*     weekly audit mail, deduplicated by a persisted marker;              *)
(*   - sendAttendancePerDepartment (attendance script): one mail per       *)
(*     department with data and an email mapping.                          *)
(* Each script has its own specification (SpecFlatten, SpecWeekly,         *)
(* SpecDept); the variables of the other scripts stay at their initial     *)
(* values.                                                                 *)
(***************************************************************************)
EXTENDS Integers, Sequences, FiniteSets, TLC

VARIABLES
    source,        \* sheet "source_02": its data rows (see getValues)
    sourceCols,    \* width of the source sheet's data range (every row has it)
    target,        \* sheet "flattern_audit", columns A..U, one entry per sheet row
    Z1,            \* cell Z1 of the target sheet: the stored watermark
    flatLog,       \* history: one record per completed flattener run
    running,       \* the flattener runs under way, when runs overlap
    timestampCell, \* cell A1 of sheet "last_audit"
    lastSentTicketTimestamp, \* script property of the same name
    outbox,        \* history: canonical timestamps of the weekly mails delivered
    mailLog,       \* history: one record per weekly-mailer run
    attendanceValues, \* sheet "Attendance": getDataRange().getValues()
    attendanceData,   \* records returned by getAttendanceRows_
    deptEmailsValues, \* sheet "dept_emails": getDataRange().getValues()
    deptLog           \* history: the department-mailer run made on the present sheets

flatVars == <<source, sourceCols, target, Z1, flatLog, running>>
mailVars == <<timestampCell, lastSentTicketTimestamp, outbox, mailLog>>
deptVars == <<attendanceValues, attendanceData, deptEmailsValues, deptLog>>
vars == <<source, sourceCols, target, Z1, flatLog, running,
          timestampCell, lastSentTicketTimestamp, outbox, mailLog,
          attendanceValues, attendanceData, deptEmailsValues, deptLog>>

---------------------------------------------------------------------------
(* Bounds of the model *)

MaxT == 2          \* timestamps are the instants 1..MaxT (milliseconds)
MaxRows == 2       \* data rows in the source sheet
MaxRuns == 2       \* flattener runs
MaxShortRows == 1  \* data rows in a source sheet narrower than EXPECTED_TOTAL_COLS
MaxSec == 2        \* cell A1 holds dates within the seconds 1..MaxSec
MaxMailRuns == 3   \* weekly-mailer runs
MaxRecords == 3    \* attendance records
MaxEmailRows == 2  \* data rows of the dept_emails sheet
MaxSheetRows == 3  \* rows of the Attendance sheet, header rows included
MaxIntDigits == 1  \* digits before the point in a KPI (%) cell
MaxFracDigits == 3 \* digits after the point in a KPI (%) cell
MaxCsvLen == 3     \* parts in a value written to the CSV
MaxCsvRows == 2    \* records written to the CSV

---------------------------------------------------------------------------
(* Cell values, as getValue()/getValues() return them.  kind "empty" is    *)
(* the empty string, "null" is null, "text" a non-empty string that is no  *)
(* date, "date" a Date object of v milliseconds since the epoch.           *)

EmptyCell == [kind |-> "empty", v |-> 0]
NullCell == [kind |-> "null", v |-> 0]
TextCell(id) == [kind |-> "text", v |-> id]
DateCell(ms) == [kind |-> "date", v |-> ms]

\* JavaScript truthiness of a cell value (!x is its negation).
Truthy(c) == c.kind \in {"text", "date"}

\* Numbers as JavaScript has them: NaN compares false with everything.
Num(n) == [nan |-> FALSE, ms |-> n]
NaN == [nan |-> TRUE, ms |-> 0]
NumGT(a, b) == ~a.nan /\ ~b.nan /\ a.ms > b.ms
NumLE(a, b) == ~a.nan /\ ~b.nan /\ a.ms <= b.ms

\* new Date(x).getTime(): the instant of a Date, 0 for null, NaN for the
\* empty string and for text that is no date.
getTime(c) ==
    IF c.kind = "date" THEN Num(c.v)
    ELSE IF c.kind = "null" THEN Num(0)
    ELSE NaN

---------------------------------------------------------------------------
(* flattenTransactionsAudit: configuration *)

STATIC_COLS == 4
AUDIT_GROUP_SIZE == 17
NUMBER_OF_GROUPS == 20
EXPECTED_TOTAL_COLS == STATIC_COLS + (AUDIT_GROUP_SIZE * NUMBER_OF_GROUPS)
HEADER_COUNT == 21

headers == SubSeq([i \in 1..HEADER_COUNT |-> TextCell(i)], 1, HEADER_COUNT)

\* const lastDate = lastTimestampValue ? new Date(lastTimestampValue).getTime() : 0
lastDateOf(lastTimestampValue) ==
    IF Truthy(lastTimestampValue) THEN getTime(lastTimestampValue) ELSE Num(0)

\* row.slice(a, b) on a 0-based array
slice(row, a, b) ==
    LET hi == IF b > Len(row) THEN Len(row) ELSE b
    IN  IF a >= hi THEN <<>> ELSE SubSeq(row, a + 1, hi)

\* if (row.length < EXPECTED_TOTAL_COLS) continue
isShort(row) == Len(row) < EXPECTED_TOTAL_COLS

\* if (currentDate <= lastDate) continue
\* (faulty variant: < in place of <=)
alreadyProcessedStrict(currentDate, lastDate) == NumGT(lastDate, currentDate)
alreadyProcessed(currentDate, lastDate) == NumLE(currentDate, lastDate)

\* row.slice(startIndex, endIndex) of group number `group` (0-based)
\* (faulty variant: the group without its first and last cell)
auditGroupDataInner(row, group) ==
    LET startIndex == STATIC_COLS + (group * AUDIT_GROUP_SIZE)
    IN  slice(row, startIndex + 1, startIndex + AUDIT_GROUP_SIZE - 1)
auditGroupData(row, group) ==
    LET startIndex == STATIC_COLS + (group * AUDIT_GROUP_SIZE)
        endIndex == startIndex + AUDIT_GROUP_SIZE
    IN  slice(row, startIndex, endIndex)

\* auditGroupData.every(cell => cell === "" || cell === null)
\* (faulty variant: without the test for null)
allEmptyStrings(cells) == \A k \in 1..Len(cells) : cells[k].kind = "empty"
allEmpty(cells) == \A k \in 1..Len(cells) : cells[k].kind \in {"empty", "null"}

\* The inner loop over the groups of one row: the rows pushed to newRows,
\* each with the source row index and the group it comes from (src and grp
\* are bookkeeping of the model, cells is the array the code pushes).
RECURSIVE groupRows(_, _, _)
groupRows(row, i, group) ==
    IF group >= NUMBER_OF_GROUPS THEN <<>>
    ELSE LET cells == auditGroupData(row, group)
             rest == groupRows(row, i, group + 1)
         IN  IF allEmpty(cells) THEN rest
             ELSE <<[src |-> i, grp |-> group,
                     cells |-> slice(row, 0, STATIC_COLS) \o cells]>> \o rest

\* if (currentDate > new Date(newLastTimestamp).getTime() || newLastTimestamp === "")
advances(currentDate, newLastTimestamp) ==
    NumGT(currentDate, getTime(newLastTimestamp)) \/ newLastTimestamp.kind = "empty"

\* The loop over data rows i..Len(data) (1-based; the code's i is one less),
\* from the accumulator acc = [newRows, newLastTimestamp].
RECURSIVE flattenLoop(_, _, _, _)
flattenLoop(data, i, lastDate, acc) ==
    IF i > Len(data) THEN acc
    ELSE LET row == data[i]
             timestampValue == row[1]
             currentDate == getTime(timestampValue)
         IN  IF isShort(row) THEN flattenLoop(data, i + 1, lastDate, acc)
             ELSE IF ~Truthy(timestampValue) THEN flattenLoop(data, i + 1, lastDate, acc)
             ELSE IF alreadyProcessed(currentDate, lastDate)
                  THEN flattenLoop(data, i + 1, lastDate, acc)
             ELSE flattenLoop(data, i + 1, lastDate,
                    [newRows |-> acc.newRows \o groupRows(row, i, 0),
                     newLastTimestamp |->
                        IF advances(currentDate, acc.newLastTimestamp)
                        THEN timestampValue ELSE acc.newLastTimestamp])

\* targetSheet.getLastRow(): the last sheet row with content, Z1 included.
getLastRow(sheet, z1) ==
    IF Len(sheet) > 0 THEN Len(sheet)
    ELSE IF z1.kind = "empty" THEN 0 ELSE 1

\* Rows start..start+Len(rows)-1 of the sheet set to rows (setValues); a
\* row skipped over stays blank, a row already there is overwritten.
RECURSIVE blankRows(_)
blankRows(n) == IF n <= 0 THEN <<>> ELSE <<<<>>>> \o blankRows(n - 1)

setValues(sheet, startRow, rows) ==
    IF startRow > Len(sheet)
    THEN sheet \o blankRows(startRow - 1 - Len(sheet)) \o rows
    ELSE LET last == startRow + Len(rows) - 1
         IN  SubSeq(sheet, 1, startRow - 1) \o rows \o SubSeq(sheet, last + 1, Len(sheet))

RECURSIVE cellsOf(_)
cellsOf(rows) ==
    IF rows = <<>> THEN <<>> ELSE <<Head(rows).cells>> \o cellsOf(Tail(rows))

---------------------------------------------------------------------------
(* The source sheet.  The state keeps, per data row, its timestamp cell    *)
(* and the set of its non-empty groups; getValues builds the matrix that   *)
(* sourceSheet.getDataRange().getValues() returns, every row at the width  *)
(* of the data range, the header row first.                                *)

\* Group 4 alone is the scenario of the specification's section 8; groups 0
\* and 19 are the first and the last of the row.
GroupChoices == {{}, {4}, {0, 19}}

\* The rows a form response can add: every choice of groups under a date,
\* the scenario's one group under a timestamp that is empty or no date.
RowChoices ==
    {[ts |-> ts, filled |-> filled] :
        ts \in {DateCell(t) : t \in 1..MaxT}, filled \in GroupChoices}
    \cup {[ts |-> ts, filled |-> {4}] : ts \in {EmptyCell, TextCell(0)}}

\* The one filled cell of a non-empty group: its first cell (ref no.) in
\* group 0, its last (remark) in the last group, a middle one otherwise.
filledOffset(g) ==
    IF g = 0 THEN 0
    ELSE IF g = NUMBER_OF_GROUPS - 1 THEN AUDIT_GROUP_SIZE - 1
    ELSE AUDIT_GROUP_SIZE \div 2

\* The cells of a group nothing was entered in: "" and null alternate.
blankGroup ==
    SubSeq([k \in 1..AUDIT_GROUP_SIZE |-> IF k % 2 = 1 THEN EmptyCell ELSE NullCell],
           1, AUDIT_GROUP_SIZE)

\* The cells of group g of data row n.
groupCells(filled, n, g) ==
    IF g \in filled
    THEN [blankGroup EXCEPT ![filledOffset(g) + 1] = TextCell(100 * n + g)]
    ELSE blankGroup

RECURSIVE groupsFrom(_, _, _)
groupsFrom(filled, n, g) ==
    IF g >= NUMBER_OF_GROUPS THEN <<>>
    ELSE groupCells(filled, n, g) \o groupsFrom(filled, n, g + 1)

\* Data row n at the width of the data range: the timestamp, the other
\* static cells, the groups; cut at cols.
sourceRow(ts, filled, n, cols) ==
    slice(<<ts, TextCell(100 * n + 2), TextCell(100 * n + 3), TextCell(100 * n + 4)>>
          \o groupsFrom(filled, n, 0), 0, cols)

sourceHeader(cols) == SubSeq([c \in 1..cols |-> TextCell(c)], 1, cols)

RECURSIVE dataRows(_, _, _)
dataRows(rows, n, cols) ==
    IF n > Len(rows) THEN <<>>
    ELSE <<sourceRow(rows[n].ts, rows[n].filled, n, cols)>> \o dataRows(rows, n + 1, cols)

getValues(rows, cols) == <<sourceHeader(cols)>> \o dataRows(rows, 1, cols)

SourceWidths == {EXPECTED_TOTAL_COLS - 1, EXPECTED_TOTAL_COLS}

\* A form response lands in the source sheet.
AppendSourceRow ==
    /\ Len(source) < (IF sourceCols < EXPECTED_TOTAL_COLS THEN MaxShortRows ELSE MaxRows)
    /\ \E r \in RowChoices : source' = Append(source, r)
    /\ UNCHANGED <<sourceCols, target, Z1, flatLog, running, mailVars, deptVars>>

---------------------------------------------------------------------------
(* flattenTransactionsAudit: one whole run.  z1WriteOk = FALSE is the      *)
(* store refusing the final setValue, which raises after the rows were     *)
(* written.  A flatLog record keeps the number of rows the data range had, *)
(* Z1 before and after, and for each row written its source row and group  *)
(* (at) and the target row it went to (firstRow onwards), and the number   *)
(* of target rows before the batch write (header included) and after it.   *)

RECURSIVE originOf(_)
originOf(rows) ==
    IF rows = <<>> THEN <<>>
    ELSE <<[src |-> Head(rows).src, grp |-> Head(rows).grp]>> \o originOf(Tail(rows))

flattenTransactionsAudit(z1WriteOk) ==
    /\ Len(flatLog) < MaxRuns
    /\ \E data \in {getValues(source, sourceCols)} :
          IF Len(data) <= 1
          THEN /\ flatLog' = Append(flatLog,
                     [dataLen |-> Len(data), before |-> Z1, at |-> <<>>,
                      firstRow |-> 0, lenBefore |-> Len(target),
                      lenAfter |-> Len(target), after |-> Z1, raised |-> FALSE])
               /\ UNCHANGED <<target, Z1>>
          ELSE \E res \in {flattenLoop(data, 2, lastDateOf(Z1),
                              [newRows |-> <<>>, newLastTimestamp |-> Z1])} :
               LET lastTimestampValue == Z1
                   withHeader == IF getLastRow(target, Z1) = 0
                                 THEN <<headers>> ELSE target
                   startRow == getLastRow(withHeader, Z1) + 1
                   written == IF Len(res.newRows) > 0
                              THEN setValues(withHeader, startRow, cellsOf(res.newRows))
                              ELSE withHeader
                   changed == res.newLastTimestamp # lastTimestampValue
               IN  /\ target' = written
                   /\ Z1' = IF changed /\ z1WriteOk THEN res.newLastTimestamp ELSE Z1
                   /\ flatLog' = Append(flatLog,
                         [dataLen |-> Len(data), before |-> Z1,
                          at |-> originOf(res.newRows), firstRow |-> startRow,
                          lenBefore |-> Len(withHeader), lenAfter |-> Len(written),
                          after |-> Z1', raised |-> changed /\ ~z1WriteOk])
    /\ UNCHANGED <<source, sourceCols, running>>

FlattenRun ==
    /\ flattenTransactionsAudit(TRUE)
    /\ UNCHANGED <<mailVars, deptVars>>

---------------------------------------------------------------------------
(* Properties of the flattener, stated over the runs recorded in flatLog.  *)
(* The source sheet only grows, so the data range run k read is the first  *)
(* dataLen rows of the present one.                                        *)

FlatRuns == 1..Len(flatLog)

dataOfRun(k) == getValues(SubSeq(source, 1, flatLog[k].dataLen - 1), sourceCols)

\* The timestamp cell ts holds an instant at or before the watermark w.
AtOrBeforeWatermark(ts, w) == ts.kind = "date" /\ w.kind = "date" /\ ts.v <= w.v

\* The timestamp cell ts holds an instant after the watermark w (any
\* instant is, when no watermark is stored yet).
AfterWatermark(ts, w) ==
    ts.kind = "date" /\ (w.kind = "empty" \/ (w.kind = "date" /\ ts.v > w.v))

\* Row i of the data range is eligible in a run that read watermark w: long
\* enough, with a timestamp, and that timestamp after the watermark.
Eligible(data, i, w) ==
    /\ Len(data[i]) >= 344
    /\ data[i][1].kind \notin {"empty", "null"}
    /\ AfterWatermark(data[i][1], w)

\* Group g (0..19) of a full row has a cell that is neither "" nor null.
GroupFilled(row, g) ==
    \E c \in (5 + 17 * g)..(21 + 17 * g) : row[c].kind \notin {"empty", "null"}

EmittedFrom(k, i) == {j \in DOMAIN flatLog[k].at : flatLog[k].at[j].src = i}

\* C1 (as claimed): a run that follows another run with no change to the
\* source table in between appends no row to the target sheet and leaves
\* Z1 unchanged.
C1_SecondRunIdempotent ==
    \A k \in FlatRuns :
        (k > 1 /\ flatLog[k].dataLen = flatLog[k - 1].dataLen)
        => /\ flatLog[k].lenAfter = flatLog[k].lenBefore
           /\ flatLog[k].at = <<>>
           /\ flatLog[k].after = flatLog[k].before

\* C2: in every run, a source row whose timestamp is at or before the
\* watermark read at the start of the run contributes no output row.
C2_NoRowAtOrBeforeWatermark ==
    \A k \in FlatRuns : \A data \in {dataOfRun(k)} :
        \A i \in 2..Len(data) :
            AtOrBeforeWatermark(data[i][1], flatLog[k].before)
            => EmittedFrom(k, i) = {}

\* C2 witness: a run skipped a full-length row that has a filled group
\* because its timestamp is at or before the watermark.
C2_Witness ==
    \E k \in FlatRuns : \E data \in {dataOfRun(k)} :
        \E i \in 2..Len(data) :
            /\ Len(data[i]) >= 344
            /\ AtOrBeforeWatermark(data[i][1], flatLog[k].before)
            /\ \E g \in 0..19 : GroupFilled(data[i], g)

MaxInstant(S) == CHOOSE m \in S : \A x \in S : x <= m

\* C3 (as claimed): after a run the watermark is the maximum timestamp of
\* the rows eligible in that run, unchanged when none was eligible, and
\* it never decreases.
C3_WatermarkIsMaxEligible ==
    \A k \in FlatRuns : \A data \in {dataOfRun(k)} :
        LET w == flatLog[k].before
            elig == {i \in 2..Len(data) : Eligible(data, i, w)}
        IN  /\ elig = {} => flatLog[k].after = w
            /\ elig # {} =>
                  /\ flatLog[k].after.kind = "date"
                  /\ flatLog[k].after.v = MaxInstant({data[i][1].v : i \in elig})
            /\ (w.kind = "date") =>
                  (flatLog[k].after.kind = "date" /\ flatLog[k].after.v >= w.v)

TargetRowOf(k, j) == target[flatLog[k].firstRow + j - 1]

---------------------------------------------------------------------------
(* Two runs of flattenTransactionsAudit under way at once.  Every call of  *)
(* the spreadsheet service is a step of its own, and the steps of the two  *)
(* runs interleave freely.  running[p] keeps what run p holds in its       *)
(* constants and variables, and its position:                              *)
(*   "start"       before Z1 is read                                       *)
(*   "watermark"   Z1 read, before the data range is read                  *)
(*   "data"        data read, before getLastRow() of the header check      *)
(*   "header"      the target sheet was found empty, before appendRow      *)
(*   "loop"        before getLastRow() of the batch write                  *)
(*   "write"       startRow known, before setValues                        *)
(*   "store"       rows written, before setValue of Z1                     *)
(*   "done"                                                                *)
(* early records that the run read Z1 while the other run had written      *)
(* neither rows nor watermark.                                             *)

Runners == {1, 2}

NotStarted ==
    [pc |-> "start", lastTimestampValue |-> EmptyCell, dataLen |-> 0,
     startRow |-> 0, lenBefore |-> 0, early |-> FALSE]

\* const lastTimestampValue, const lastDate: the run works with the value
\* it read at its start, whatever Z1 holds by now.
\* (faulty variant: Z1 as it is now)
watermarkNow(read, now) == now
watermarkOf(read, now) == read

\* The rows and the timestamp that the loop of run p arrives at.
loopOf(p) ==
    LET lastTimestampValue == watermarkOf(running[p].lastTimestampValue, Z1)
    IN  flattenLoop(getValues(SubSeq(source, 1, running[p].dataLen - 1), sourceCols),
                    2, lastDateOf(lastTimestampValue),
                    [newRows |-> <<>>, newLastTimestamp |-> lastTimestampValue])

Written(p) == running[p].pc \in {"store", "done"}

\* The record of a finished run, as flattenTransactionsAudit keeps it.
finished(p, newRows, lenAfter, after) ==
    [dataLen |-> running[p].dataLen, before |-> running[p].lastTimestampValue,
     at |-> originOf(newRows), firstRow |-> running[p].startRow,
     lenBefore |-> running[p].lenBefore, lenAfter |-> lenAfter,
     after |-> after, raised |-> FALSE, runner |-> p, early |-> running[p].early]

\* targetSheet.getRange("Z1").getValue()
ReadWatermark(p) ==
    /\ running[p].pc = "start"
    /\ running' = [running EXCEPT ![p].pc = "watermark",
                                  ![p].lastTimestampValue = Z1,
                                  ![p].early = \A q \in Runners \ {p} : ~Written(q)]
    /\ UNCHANGED <<source, sourceCols, target, Z1, flatLog, mailVars, deptVars>>

\* sourceSheet.getDataRange().getValues(); if (data.length <= 1) return
ReadSource(p) ==
    /\ running[p].pc = "watermark"
    /\ IF Len(source) + 1 <= 1
       THEN /\ running' = [running EXCEPT ![p].pc = "done", ![p].dataLen = 1]
            /\ flatLog' = Append(flatLog,
                  [finished(p, <<>>, Len(target), Z1) EXCEPT !.dataLen = 1,
                                                             !.lenBefore = Len(target)])
       ELSE /\ running' = [running EXCEPT ![p].pc = "data",
                                          ![p].dataLen = Len(source) + 1]
            /\ UNCHANGED flatLog
    /\ UNCHANGED <<source, sourceCols, target, Z1, mailVars, deptVars>>

\* if (targetSheet.getLastRow() === 0)
CheckHeader(p) ==
    /\ running[p].pc = "data"
    /\ running' = [running EXCEPT ![p].pc =
                      IF getLastRow(target, Z1) = 0 THEN "header" ELSE "loop"]
    /\ UNCHANGED <<source, sourceCols, target, Z1, flatLog, mailVars, deptVars>>

\* targetSheet.appendRow(headers): the row after the last one with content
AppendHeader(p) ==
    /\ running[p].pc = "header"
    /\ target' = setValues(target, getLastRow(target, Z1) + 1, <<headers>>)
    /\ running' = [running EXCEPT ![p].pc = "loop"]
    /\ UNCHANGED <<source, sourceCols, Z1, flatLog, mailVars, deptVars>>

\* After the loop: targetSheet.getLastRow() + 1 when there are rows to
\* write; with none, the write of Z1 if the timestamp changed.
ReadStartRow(p) ==
    /\ running[p].pc = "loop"
    /\ \E res \in {loopOf(p)} :
          IF Len(res.newRows) > 0
          THEN /\ running' = [running EXCEPT ![p].pc = "write",
                                  ![p].startRow = getLastRow(target, Z1) + 1,
                                  ![p].lenBefore = Len(target)]
               /\ UNCHANGED <<Z1, flatLog>>
          ELSE /\ running' = [running EXCEPT ![p].pc = "done",
                                             ![p].lenBefore = Len(target)]
               /\ Z1' = IF res.newLastTimestamp # running[p].lastTimestampValue
                        THEN res.newLastTimestamp ELSE Z1
               /\ flatLog' = Append(flatLog,
                     [finished(p, <<>>, Len(target), Z1') EXCEPT
                         !.lenBefore = Len(target)])
    /\ UNCHANGED <<source, sourceCols, target, mailVars, deptVars>>

\* targetSheet.getRange(startRow, 1, numRows, numCols).setValues(newRows)
WriteRows(p) ==
    /\ running[p].pc = "write"
    /\ \E res \in {loopOf(p)} :
          /\ target' = setValues(target, running[p].startRow, cellsOf(res.newRows))
          /\ IF res.newLastTimestamp # running[p].lastTimestampValue
             THEN /\ running' = [running EXCEPT ![p].pc = "store"]
                  /\ UNCHANGED flatLog
             ELSE /\ running' = [running EXCEPT ![p].pc = "done"]
                  /\ flatLog' = Append(flatLog,
                        finished(p, res.newRows, Len(target'), Z1))
    /\ UNCHANGED <<source, sourceCols, Z1, mailVars, deptVars>>

\* targetSheet.getRange("Z1").setValue(newLastTimestamp)
StoreWatermark(p) ==
    /\ running[p].pc = "store"
    /\ \E res \in {loopOf(p)} :
          /\ Z1' = res.newLastTimestamp
          /\ flatLog' = Append(flatLog,
                finished(p, res.newRows, Len(target), res.newLastTimestamp))
    /\ running' = [running EXCEPT ![p].pc = "done"]
    /\ UNCHANGED <<source, sourceCols, target, mailVars, deptVars>>

\* The form responses of the runs that overlap: a date and one group.
OverlapRowChoices == {[ts |-> DateCell(t), filled |-> {4}] : t \in 1..MaxT}

AppendOverlapRow ==
    /\ Len(source) < MaxRows
    /\ \E r \in OverlapRowChoices : source' = Append(source, r)
    /\ UNCHANGED <<sourceCols, target, Z1, flatLog, running, mailVars, deptVars>>

NextOverlap ==
    \/ AppendOverlapRow
    \/ \E p \in Runners :
          \/ ReadWatermark(p)
          \/ ReadSource(p)
          \/ CheckHeader(p)
          \/ AppendHeader(p)
          \/ ReadStartRow(p)
          \/ WriteRows(p)
          \/ StoreWatermark(p)

BothDone == running # <<>> /\ \A p \in Runners : running[p].pc = "done"

\* Each run read Z1 before the other had written its rows and watermark.
Overlapped == \A k \in FlatRuns : flatLog[k].early

\* C15: when two runs overlap, each works with the watermark it read: a
\* source row that both runs read and that is eligible under that
\* watermark, with a filled group, is emitted by both runs; and the value
\* in Z1 at the end is that of the run that finished last, whatever the
\* other run emitted.
C15_OverlappingRunsBothEmit ==
    (BothDone /\ Overlapped) =>
        /\ \A k \in FlatRuns : \A data \in {dataOfRun(k)} :
              \A i \in 2..Len(data) :
                 (Eligible(data, i, flatLog[k].before)
                    /\ \E g \in 0..19 : GroupFilled(data[i], g))
                 => EmittedFrom(k, i) # {}
        /\ \A k1, k2 \in FlatRuns : flatLog[k1].before = flatLog[k2].before
        /\ Z1 = flatLog[Len(flatLog)].after

\* C15 witness: two overlapping runs are over, a row of one source row and
\* group stands in the target twice, and Z1 holds an instant earlier than
\* the timestamp of a row that was emitted.
C15_Witness ==
    /\ BothDone /\ Overlapped
    /\ \E r1, r2 \in DOMAIN target :
          r1 < r2 /\ target[r1] = target[r2] /\ Len(target[r1]) = 21
    /\ Z1.kind = "date"
    /\ \E k \in FlatRuns : \E j \in DOMAIN flatLog[k].at :
          source[flatLog[k].at[j].src - 1].ts.v > Z1.v

---------------------------------------------------------------------------
(* sendFormattedEmail.  Strings are records too: kind "fmt" is the text    *)
(* Utilities.formatDate gives for the second v, kind "raw" the text of a   *)
(* text cell; getProperty gives null for a property never set.             *)

NullString == [kind |-> "null", v |-> 0]

\* "MM-dd-yyyy HH:mm:ss" keeps the second of the instant and drops the rest.
MS_PER_SECOND == 1000

formatDate(ms) == [kind |-> "fmt", v |-> ms \div MS_PER_SECOND]

\* (timestampCell instanceof Date) ? Utilities.formatDate(...) : timestampCell.toString()
currentTimestampOf(cell) ==
    IF cell.kind = "date" THEN formatDate(cell.v) ELSE [kind |-> "raw", v |-> cell.v]

\* if (currentTimestamp && currentTimestamp !== lastTimestamp)
\* (faulty variant: without the comparison with the marker)
isNewAlways(currentTimestamp, lastTimestamp) == currentTimestamp.kind # "null"
isNew(currentTimestamp, lastTimestamp) ==
    currentTimestamp.kind # "null" /\ currentTimestamp # lastTimestamp

\* The try block: MailApp.sendEmail, then setProperty.  An exception of
\* either leaves the block for the catch, which logs it; the value is the
\* marker after the block.
\* (faulty variants: setProperty left out; setProperty before sendEmail;
\* the marker counted as saved though setProperty failed)
markerNotSaved(currentTimestamp, lastTimestamp, sendOk, setOk) == lastTimestamp
markerSavedFirst(currentTimestamp, lastTimestamp, sendOk, setOk) ==
    IF setOk THEN currentTimestamp ELSE lastTimestamp
markerSavedAnyway(currentTimestamp, lastTimestamp, sendOk, setOk) ==
    IF sendOk THEN currentTimestamp ELSE lastTimestamp
markerAfterTry(currentTimestamp, lastTimestamp, sendOk, setOk) ==
    IF sendOk /\ setOk THEN currentTimestamp ELSE lastTimestamp

\* Whether an exception of the try block leaves sendFormattedEmail.
escapesTry(sendOk, setOk) == FALSE

\* One whole run.  sendOk: the mail transport accepts the mail; setOk: the
\* property store accepts the write of the marker.  A mailLog record keeps
\* A1, its canonical string, the marker before and after the run, and
\* whether a send was attempted, the mail was sent, setProperty was refused
\* and an exception left the function.
sendFormattedEmail(sendOk, setOk) ==
    /\ Len(mailLog) < MaxMailRuns
    /\ IF ~Truthy(timestampCell)
       THEN /\ mailLog' = Append(mailLog,
                  [cell |-> timestampCell, canon |-> NullString,
                   before |-> lastSentTicketTimestamp, attempted |-> FALSE,
                   sent |-> FALSE, refused |-> FALSE, raised |-> FALSE,
                   after |-> lastSentTicketTimestamp])
            /\ UNCHANGED <<lastSentTicketTimestamp, outbox>>
       ELSE LET currentTimestamp == currentTimestampOf(timestampCell)
                lastTimestamp == lastSentTicketTimestamp
            IN  IF isNew(currentTimestamp, lastTimestamp)
                THEN /\ outbox' = IF sendOk THEN Append(outbox, currentTimestamp)
                                  ELSE outbox
                     /\ lastSentTicketTimestamp' =
                           markerAfterTry(currentTimestamp, lastTimestamp, sendOk, setOk)
                     /\ mailLog' = Append(mailLog,
                           [cell |-> timestampCell, canon |-> currentTimestamp,
                            before |-> lastTimestamp, attempted |-> TRUE,
                            sent |-> sendOk, refused |-> sendOk /\ ~setOk,
                            raised |-> escapesTry(sendOk, setOk),
                            after |-> lastSentTicketTimestamp'])
                ELSE /\ mailLog' = Append(mailLog,
                           [cell |-> timestampCell, canon |-> currentTimestamp,
                            before |-> lastTimestamp, attempted |-> FALSE,
                            sent |-> FALSE, refused |-> FALSE, raised |-> FALSE,
                            after |-> lastTimestamp])
                     /\ UNCHANGED <<lastSentTicketTimestamp, outbox>>
    /\ UNCHANGED timestampCell

\* A run in which the transport accepts the mail, and one in which it fails.
WeeklyRun ==
    /\ sendFormattedEmail(TRUE, TRUE)
    /\ UNCHANGED <<flatVars, deptVars>>

WeeklyRunSendFails ==
    /\ sendFormattedEmail(FALSE, TRUE)
    /\ UNCHANGED <<flatVars, deptVars>>

\* The values cell A1 takes: empty, a text, or a date; two dates of every
\* second, so that distinct dates can format alike.
A1Values ==
    {EmptyCell, TextCell(1)}
    \cup {DateCell(sec * MS_PER_SECOND + ms) : sec \in 1..MaxSec, ms \in {0, 1}}

\* The audit sheet is recalculated: A1 shows another value.
SetTimestampCell ==
    /\ \E c \in A1Values : c # timestampCell /\ timestampCell' = c
    /\ UNCHANGED <<lastSentTicketTimestamp, outbox, mailLog, flatVars, deptVars>>

NextWeekly == SetTimestampCell \/ WeeklyRun \/ WeeklyRunSendFails

---------------------------------------------------------------------------
(* Properties of the weekly mailer, over the runs recorded in mailLog.     *)

MailRuns == 1..Len(mailLog)

\* C6: a send is attempted only when A1 is non-empty and its canonical
\* string differs from the marker; after a successful send the marker is
\* that string; when A1 is empty or its canonical string equals the marker
\* no send is attempted and the marker keeps its value.
C6_SendOnlyWhenNew ==
    \A k \in MailRuns :
        LET r == mailLog[k]
            empty == r.cell.kind \in {"empty", "null"}
        IN  /\ r.attempted => (~empty /\ r.canon # r.before)
            /\ r.sent => (r.attempted /\ r.after = r.canon)
            /\ (empty \/ r.canon = r.before) => (~r.attempted /\ r.after = r.before)
            /\ ~empty => r.canon = (IF r.cell.kind = "date"
                                    THEN [kind |-> "fmt", v |-> r.cell.v \div 1000]
                                    ELSE [kind |-> "raw", v |-> r.cell.v])

\* C6 witness: a run sent the mail and set the marker, a later run with an
\* unchanged canonical string attempted nothing, and a run with an empty A1
\* attempted nothing.
C6_Witness ==
    /\ \E k \in MailRuns : mailLog[k].sent /\ mailLog[k].after = mailLog[k].canon
    /\ \E k \in MailRuns :
          /\ mailLog[k].cell.kind = "date"
          /\ mailLog[k].canon = mailLog[k].before
          /\ ~mailLog[k].attempted
    /\ \E k \in MailRuns : mailLog[k].cell.kind = "empty" /\ ~mailLog[k].attempted

NoSendFailed == \A k \in MailRuns : mailLog[k].attempted => mailLog[k].sent

\* C7 (as claimed): while sends succeed, no timestamp value is ever
\* emailed a second time.
C7_NeverEmailedTwice ==
    NoSendFailed =>
        \A i, j \in DOMAIN outbox : i # j => outbox[i] # outbox[j]

\* C7 (amended): while sends succeed, no timestamp value is emailed twice
\* in a row: the mail of a run carries a value other than that of the mail
\* delivered just before it.
C7_NeverEmailedTwiceInARow ==
    NoSendFailed =>
        \A i \in DOMAIN outbox : i > 1 => outbox[i] # outbox[i - 1]

\* C7 witness: with every send successful, two mails were delivered, and
\* runs in between found A1 as it was at the last mail and sent nothing.
C7_Witness ==
    /\ NoSendFailed
    /\ Len(outbox) >= 2
    /\ \E k \in MailRuns : k > 1 /\ ~mailLog[k].attempted /\ mailLog[k].canon = mailLog[k].before

\* C8: a run whose send failed raises nothing and leaves the marker as it
\* was, and the next run, if A1 is the same, attempts the send again.
C8_FailedSendIsRetried ==
    \A k \in MailRuns :
        (mailLog[k].attempted /\ ~mailLog[k].sent) =>
            /\ ~mailLog[k].raised
            /\ mailLog[k].after = mailLog[k].before
            /\ (k + 1 \in MailRuns /\ mailLog[k + 1].cell = mailLog[k].cell)
                  => mailLog[k + 1].attempted

\* C8 witness: a send failed and the next run, A1 unchanged, sent the mail.
C8_Witness ==
    \E k \in MailRuns :
        /\ mailLog[k].attempted /\ ~mailLog[k].sent
        /\ k + 1 \in MailRuns
        /\ mailLog[k + 1].cell = mailLog[k].cell
        /\ mailLog[k + 1].sent

---------------------------------------------------------------------------
(* The store refuses a write: setValue of Z1 at the end of a flattener     *)
(* run, setProperty of the marker after the weekly mail was sent.  Both    *)
(* scripts run, each on its own data: a source sheet of one form response  *)
(* and a cell A1 that stay as they are.                                    *)

FlattenRunStoreFails ==
    /\ flattenTransactionsAudit(FALSE)
    /\ UNCHANGED <<mailVars, deptVars>>

WeeklyRunStoreFails ==
    /\ sendFormattedEmail(TRUE, FALSE)
    /\ UNCHANGED <<flatVars, deptVars>>

NextStore == FlattenRun \/ FlattenRunStoreFails \/ WeeklyRun \/ WeeklyRunStoreFails

\* Run k of the flattener was refused the write of Z1.
Z1WriteFailed(k) == flatLog[k].raised

\* Run k of the weekly mailer sent the mail and was refused the write of
\* the marker.
MarkerWriteFailed(k) == mailLog[k].sent /\ mailLog[k].refused

\* C16: a flattener run whose rows were written and whose write of Z1
\* failed leaves the rows in the target and Z1 as it was, and the next run
\* emits every one of these rows again; a weekly-mailer run whose mail was
\* sent and whose write of the marker failed leaves the mail delivered and
\* the marker as it was, raises nothing, and the next run, A1 being the
\* same, sends the mail again.
C16_FailedStoreRepeatsTheEffect ==
    /\ \A k \in FlatRuns :
          Z1WriteFailed(k) =>
             /\ flatLog[k].after = flatLog[k].before
             /\ flatLog[k].lenAfter = flatLog[k].firstRow - 1 + Len(flatLog[k].at)
             /\ \A j \in DOMAIN flatLog[k].at :
                   Len(target) >= flatLog[k].firstRow + j - 1 /\ Len(TargetRowOf(k, j)) = 21
             /\ (k + 1 \in FlatRuns) =>
                   \A j \in DOMAIN flatLog[k].at :
                      \E j2 \in DOMAIN flatLog[k + 1].at :
                         /\ flatLog[k + 1].at[j2] = flatLog[k].at[j]
                         /\ TargetRowOf(k + 1, j2) = TargetRowOf(k, j)
    /\ \A k \in MailRuns :
          MarkerWriteFailed(k) =>
             /\ mailLog[k].after = mailLog[k].before
             /\ ~mailLog[k].raised
             /\ \E i \in DOMAIN outbox : outbox[i] = mailLog[k].canon
             /\ (k + 1 \in MailRuns /\ mailLog[k + 1].cell = mailLog[k].cell)
                   => mailLog[k + 1].attempted

\* C16 witness: the write of Z1 failed after rows were written and the
\* next run wrote the same rows again; and the write of the marker failed
\* after the mail was sent and the next run sent the same mail again.
C16_Witness ==
    /\ \E k \in FlatRuns :
          /\ Z1WriteFailed(k) /\ flatLog[k].at # <<>>
          /\ k + 1 \in FlatRuns
          /\ flatLog[k + 1].at = flatLog[k].at
          /\ flatLog[k + 1].firstRow > flatLog[k].firstRow
    /\ \E k \in MailRuns :
          /\ MarkerWriteFailed(k)
          /\ k + 1 \in MailRuns /\ mailLog[k + 1].sent
          /\ Cardinality({i \in DOMAIN outbox : outbox[i] = mailLog[k].canon}) >= 2

---------------------------------------------------------------------------
(* sendAttendancePerDepartment.  A string is the sequence of its parts, a  *)
(* part being a blank " " or a word; "" is the empty sequence.             *)

RECURSIVE trimLeft(_)
trimLeft(str) ==
    IF str # <<>> /\ Head(str) = " " THEN trimLeft(Tail(str)) ELSE str

RECURSIVE trimRight(_)
trimRight(str) ==
    IF str # <<>> /\ str[Len(str)] = " "
    THEN trimRight(SubSeq(str, 1, Len(str) - 1)) ELSE str

\* String.prototype.trim
trim(str) == trimRight(trimLeft(str))

\* headers.indexOf(name): 0-based, -1 when absent
indexOf(hdrs, name) ==
    IF \E c \in DOMAIN hdrs : hdrs[c] = name
    THEN (CHOOSE c \in DOMAIN hdrs : hdrs[c] = name /\ \A b \in 1..(c - 1) : hdrs[b] # name) - 1
    ELSE -1

\* row[idx] ? row[idx].toString().trim() : ""
cellText(row, idx) ==
    IF idx + 1 \in DOMAIN row /\ row[idx + 1] # <<>> THEN trim(row[idx + 1]) ELSE <<>>

\* The loop of getDeptEmails_ over the data rows r..Len(values).
RECURSIVE emailMapFrom(_, _, _, _, _)
emailMapFrom(values, r, deptIdx, emailsIdx, emailMap) ==
    IF r > Len(values) THEN emailMap
    ELSE LET department == cellText(values[r], deptIdx)
             emails == cellText(values[r], emailsIdx)
         IN  emailMapFrom(values, r + 1, deptIdx, emailsIdx,
                IF department # <<>>
                THEN [d \in DOMAIN emailMap \cup {department} |->
                         IF d = department THEN emails ELSE emailMap[d]]
                ELSE emailMap)

\* getDeptEmails_: ok = FALSE is the Error thrown for a missing header.
getDeptEmails_(values) ==
    IF Len(values) <= 1 THEN [ok |-> TRUE, map |-> <<>>]
    ELSE LET hdrs == [c \in DOMAIN values[1] |-> trim(values[1][c])]
             deptIdx == indexOf(hdrs, <<"Department">>)
             emailsIdx == indexOf(hdrs, <<"Emails">>)
         IN  IF deptIdx = -1 \/ emailsIdx = -1 THEN [ok |-> FALSE, map |-> <<>>]
             ELSE [ok |-> TRUE,
                   map |-> emailMapFrom(values, 2, deptIdx, emailsIdx, <<>>)]

\* The keys of a record, in the order Object.keys lists them.
RecordKeys ==
    <<"Department", "Name", "Employee ID", "AM Face Scan", "PM Face Scan",
      "Attendance", "HR - Adj", "KPI Leave", "KPI (%)">>

\* rowValues.some(cell => cell && cell.toString().trim() === "Department")
hasSentinel(rowValues) ==
    \E c \in DOMAIN rowValues :
        rowValues[c] # <<>> /\ trim(rowValues[c]) = <<"Department">>

\* The loop that looks for the header row: its 0-based index, -1 for none.
headerRowIndexOf(values) ==
    IF \E i \in DOMAIN values : hasSentinel(values[i])
    THEN (CHOOSE i \in DOMAIN values :
             hasSentinel(values[i]) /\ \A j \in 1..(i - 1) : ~hasSentinel(values[j])) - 1
    ELSE -1

\* row.some(cell => cell !== "")
notBlankRow(row) == \E c \in DOMAIN row : row[c] # <<>>

\* Object.values(headerMap).some(idx => idx === -1)
\* (faulty variant: the header map is not checked)
someHeaderMissingUnchecked(headerMap) == FALSE
someHeaderMissing(headerMap) == \E k \in DOMAIN headerMap : headerMap[k] = -1

\* getAttendanceRows_: ok = FALSE is one of its two Errors.
getAttendanceRows_(values) ==
    IF Len(values) <= 1 THEN [ok |-> TRUE, records |-> <<>>]
    ELSE LET headerRowIndex == headerRowIndexOf(values)
         IN  IF headerRowIndex = -1 THEN [ok |-> FALSE, records |-> <<>>]
             ELSE LET hdrs == [c \in DOMAIN values[headerRowIndex + 1] |->
                                  trim(values[headerRowIndex + 1][c])]
                      data == SelectSeq(SubSeq(values, headerRowIndex + 2, Len(values)),
                                        notBlankRow)
                      headerMap == [k \in {RecordKeys[h] : h \in DOMAIN RecordKeys} |->
                                       indexOf(hdrs, <<k>>)]
                  IN  IF someHeaderMissing(headerMap)
                      THEN [ok |-> FALSE, records |-> <<>>]
                      ELSE [ok |-> TRUE,
                            records |-> [n \in DOMAIN data |->
                                            [k \in DOMAIN headerMap |->
                                                cellText(data[n], headerMap[k])]]]

\* The property names an object literal {} inherits from Object.prototype:
\* acc[name] is truthy (a function, or the prototype itself) before any
\* record was pushed under that name.
ObjectPrototypeNames == {<<"constructor">>, <<"toString">>, <<"__proto__">>}

\* groupRowsByDepartment_: the keys in the order Object.keys lists them
\* (insertion order: department names are no array indices) and the rows
\* of each key.  ok = FALSE is the TypeError of acc[department].push for a
\* department that acc inherits and that is no array; it ends the reduce.
RECURSIVE groupRowsByDepartment_(_)
groupRowsByDepartment_(rows) ==
    IF rows = <<>> THEN [ok |-> TRUE, keys |-> <<>>, rows |-> <<>>]
    ELSE LET acc == groupRowsByDepartment_(SubSeq(rows, 1, Len(rows) - 1))
             row == rows[Len(rows)]
             department == row.Department
         IN  IF ~acc.ok THEN acc
             ELSE IF department = <<>> THEN acc
             ELSE IF department \in DOMAIN acc.rows
                  THEN [ok |-> TRUE, keys |-> acc.keys,
                        rows |-> [acc.rows EXCEPT ![department] = Append(@, row)]]
             ELSE IF department \in ObjectPrototypeNames
                  THEN [ok |-> FALSE, keys |-> acc.keys, rows |-> acc.rows]
                  ELSE [ok |-> TRUE, keys |-> Append(acc.keys, department),
                        rows |-> [d \in DOMAIN acc.rows \cup {department} |->
                                     IF d = department THEN <<row>> ELSE acc.rows[d]]]

\* if (!recipients || recipients.trim() === "")
\* (faulty variant: without the test for a blank string)
noRecipientsAbsentOnly(deptEmailsMap, department) == department \notin DOMAIN deptEmailsMap
noRecipients(deptEmailsMap, department) ==
    \/ department \notin DOMAIN deptEmailsMap
    \/ deptEmailsMap[department] = <<>>
    \/ trim(deptEmailsMap[department]) = <<>>

\* The departments the loop still visits after the try block of one
\* department, whose send went through (ok) or threw: the catch logs the
\* error and the loop goes on.
\* (faulty variant: without the inner try/catch a throw ends the loop)
remainingAfterThrow(rest, ok) == IF ok THEN rest ELSE <<>>
remainingAfterTry(rest, ok) == rest

\* emailsSent after the try block of a department whose send threw: the
\* emailsSent++ that follows the send was not reached.
\* (faulty variant: emailsSent++ ahead of the send)
emailsSentCountedFirst(emailsSent) == emailsSent + 1
emailsSentAfterThrow(emailsSent) == emailsSent

\* The loop over the departments, from the counters and events in acc.  An
\* event names a department and what the loop did for it; "sent" and
\* "failed" are the two ends of a call of sendDepartmentEmail_.
RECURSIVE deptLoop(_, _, _, _, _)
deptLoop(departments, groupedData, deptEmailsMap, failing, acc) ==
    IF departments = <<>> THEN acc
    ELSE LET department == Head(departments)
             rest == Tail(departments)
             departmentRows == groupedData[department]
             counted == [acc EXCEPT !.departmentsProcessed = @ + 1]
         IN  IF Len(departmentRows) = 0
             THEN deptLoop(rest, groupedData, deptEmailsMap, failing,
                     [counted EXCEPT !.departmentsSkippedNoData = @ + 1,
                                     !.events = Append(@, [dept |-> department,
                                                           what |-> "skippedNoData"])])
             ELSE IF noRecipients(deptEmailsMap, department)
             THEN deptLoop(rest, groupedData, deptEmailsMap, failing,
                     [counted EXCEPT !.departmentsSkippedNoEmail = @ + 1,
                                     !.events = Append(@, [dept |-> department,
                                                           what |-> "skippedNoEmail"])])
             ELSE IF department \in failing
             THEN deptLoop(remainingAfterTry(rest, FALSE), groupedData, deptEmailsMap,
                     failing,
                     [counted EXCEPT !.emailsSent = emailsSentAfterThrow(@),
                                     !.events = Append(@, [dept |-> department,
                                                           what |-> "failed"])])
             ELSE deptLoop(remainingAfterTry(rest, TRUE), groupedData, deptEmailsMap,
                     failing,
                     [counted EXCEPT !.emailsSent = @ + 1,
                                     !.events = Append(@, [dept |-> department,
                                                           what |-> "sent"])])

noCounts ==
    [departmentsProcessed |-> 0, emailsSent |-> 0, departmentsSkippedNoData |-> 0,
     departmentsSkippedNoEmail |-> 0, events |-> <<>>]

\* One whole run, from the value or the Error of getAttendanceRows_;
\* failing is the set of departments for which sendDepartmentEmail_ throws.
\* outcome is "noData" for the early return, "fatal" for the outer catch,
\* "complete" after the summary.
sendAttendancePerDepartment(attendance, failing) ==
    IF ~attendance.ok
    THEN deptLog' = <<[outcome |-> "fatal", failing |-> failing, counts |-> noCounts]>>
    ELSE IF Len(attendance.records) = 0
    THEN deptLog' = <<[outcome |-> "noData", failing |-> failing, counts |-> noCounts]>>
    ELSE LET groupedData == groupRowsByDepartment_(attendance.records)
             deptEmails == getDeptEmails_(deptEmailsValues)
         IN  IF ~groupedData.ok \/ ~deptEmails.ok
             THEN deptLog' = <<[outcome |-> "fatal", failing |-> failing,
                                counts |-> noCounts]>>
             ELSE deptLog' = <<[outcome |-> "complete", failing |-> failing,
                                counts |-> deptLoop(groupedData.keys, groupedData.rows,
                                                    deptEmails.map, failing, noCounts)]>>

DepartmentNames == {<<"A">>, <<"B">>}

DeptRun ==
    /\ \E failing \in SUBSET DepartmentNames :
          /\ failing \subseteq {attendanceData[n].Department : n \in DOMAIN attendanceData}
          /\ sendAttendancePerDepartment([ok |-> TRUE, records |-> attendanceData],
                                         failing)
    /\ UNCHANGED <<attendanceValues, attendanceData, deptEmailsValues, flatVars, mailVars>>

\* The Attendance sheet, which has its header row, gets a row and
\* getAttendanceRows_ one record more; the Department cell may be empty.
AddAttendanceRow ==
    /\ Len(attendanceData) < MaxRecords
    /\ \E department \in DepartmentNames \cup {<<>>} :
          attendanceData' = Append(attendanceData,
              [Department |-> department, Name |-> Len(attendanceData) + 1])
    /\ deptLog' = <<>>
    /\ UNCHANGED <<attendanceValues, deptEmailsValues, flatVars, mailVars>>

\* The rows the dept_emails sheet can get: a department cell, padded or
\* not, with recipients, with blanks only, or with nothing.
EmailRowChoices ==
    {<<<<"A">>, <<"a@m">>>>, <<<<"A">>, <<" ">>>>,
     <<<<" ", "B", " ">>, <<" ", "b@m">>>>, <<<<"B">>, <<>>>>}

AddEmailRow ==
    /\ Len(deptEmailsValues) < MaxEmailRows + 1
    /\ \E row \in EmailRowChoices :
          deptEmailsValues' = Append(deptEmailsValues,
              IF indexOf(deptEmailsValues[1], <<"Department">>) = 1
              THEN <<row[2], row[1]>> ELSE row)
    /\ deptLog' = <<>>
    /\ UNCHANGED <<attendanceValues, attendanceData, flatVars, mailVars>>

\* The header rows of the dept_emails sheet: as expected, padded and in
\* the other order, and without the Emails column.
EmailHeaderChoices ==
    {<<<<"Department">>, <<"Emails">>>>,
     <<<<"Emails", " ">>, <<"Department">>>>,
     <<<<"Department">>, <<"Mail">>>>}

NextDept == AddAttendanceRow \/ AddEmailRow \/ DeptRun

---------------------------------------------------------------------------
(* Properties of the department mailer, over the run recorded in deptLog   *)
(* (the sheets are as that run read them).                                 *)

CompleteRun == Len(deptLog) = 1 /\ deptLog[1].outcome = "complete"

RunEvents == deptLog[1].counts.events

\* The departments that have attendance records.
DeptsWithData ==
    {attendanceData[n].Department : n \in DOMAIN attendanceData} \ {<<>>}

MappingTable == getDeptEmails_(deptEmailsValues).map

\* A recipient string with nothing but blanks in it.
Blank(str) == \A c \in DOMAIN str : str[c] = " "

Unmapped(d) == d \notin DOMAIN MappingTable \/ Blank(MappingTable[d])

EventsOf(d, kinds) ==
    {e \in DOMAIN RunEvents : RunEvents[e].dept = d /\ RunEvents[e].what \in kinds}

\* C9: in a run, every department with attendance records that the mapping
\* table lacks or maps to a blank string gets no send and exactly one
\* skipped-no-email count, and every department is still visited.
C9_UnmappedDepartmentSkipped ==
    CompleteRun =>
        /\ \A d \in DeptsWithData :
              Unmapped(d) =>
                 /\ EventsOf(d, {"sent", "failed"}) = {}
                 /\ Cardinality(EventsOf(d, {"skippedNoEmail"})) = 1
                 /\ \A d2 \in DeptsWithData :
                       EventsOf(d2, {"sent", "failed", "skippedNoEmail"}) # {}
        /\ deptLog[1].counts.departmentsSkippedNoEmail
              = Cardinality({d \in DeptsWithData : Unmapped(d)})

\* C9 witness: a run skipped a department mapped to a blank string, counted
\* it, and sent the mail of a department that comes after it.
C9_Witness ==
    /\ CompleteRun
    /\ \E e1, e2 \in DOMAIN RunEvents :
          /\ e1 < e2
          /\ RunEvents[e1].what = "skippedNoEmail"
          /\ RunEvents[e1].dept \in DOMAIN MappingTable
          /\ RunEvents[e2].what = "sent"
    /\ deptLog[1].counts.departmentsSkippedNoEmail = 1

\* C10: in a run, every department with data and a non-blank mapping gets
\* exactly one send attempt, which delivers unless the send throws; a
\* throw stops nothing: the departments after it are attempted and sent
\* all the same.
C10_OneAttemptPerMappedDepartment ==
    CompleteRun =>
        /\ \A d \in DeptsWithData :
              ~Unmapped(d) =>
                 /\ Cardinality(EventsOf(d, {"sent", "failed"})) = 1
                 /\ (d \in deptLog[1].failing) = (EventsOf(d, {"failed"}) # {})
        /\ deptLog[1].counts.emailsSent
              = Cardinality({d \in DeptsWithData :
                                ~Unmapped(d) /\ d \notin deptLog[1].failing})

\* C10 witness: the send of one department threw and the mail of a
\* department after it was sent.
C10_Witness ==
    /\ CompleteRun
    /\ \E e1, e2 \in DOMAIN RunEvents :
          e1 < e2 /\ RunEvents[e1].what = "failed" /\ RunEvents[e2].what = "sent"

\* C17: at the end of a completed run departmentsProcessed is the number
\* of distinct non-empty department names of the attendance records, and
\* is the sum of emailsSent, departmentsSkippedNoEmail,
\* departmentsSkippedNoData and the number of departments whose send
\* failed; departmentsSkippedNoData is 0.
C17_CountersAddUp ==
    CompleteRun =>
        LET counts == deptLog[1].counts
            sendFailed == {e \in DOMAIN RunEvents : RunEvents[e].what = "failed"}
        IN  /\ counts.departmentsProcessed = Cardinality(DeptsWithData)
            /\ counts.departmentsProcessed =
                  counts.emailsSent + counts.departmentsSkippedNoEmail
                  + counts.departmentsSkippedNoData + Cardinality(sendFailed)
            /\ counts.departmentsSkippedNoData = 0

\* C17 witness: a completed run over records of two departments and a
\* record with no department, in which one send failed and the other
\* department was sent its mail.
C17_Witness ==
    /\ CompleteRun
    /\ deptLog[1].counts.departmentsProcessed = 2
    /\ deptLog[1].counts.emailsSent = 1
    /\ \E e \in DOMAIN RunEvents : RunEvents[e].what = "failed"
    /\ \E n \in DOMAIN attendanceData : attendanceData[n].Department = <<>>

---------------------------------------------------------------------------
(* sendAttendancePerDepartment from the sheets themselves: the Attendance  *)
(* sheet with a title row or a header row first, sound or not, and the     *)
(* dept_emails sheet under a sound or an unsound header row.               *)

FullHeader == [h \in DOMAIN RecordKeys |-> <<RecordKeys[h]>>]

\* Rows of the Attendance sheet: a title, the header with a padded cell,
\* the header with another label for KPI (%) or for Department, a row of
\* data of a department, and a row of empty cells.
TitleRow == [h \in DOMAIN RecordKeys |-> IF h = 1 THEN <<"Weekly">> ELSE <<>>]
PaddedHeader == [FullHeader EXCEPT ![1] = <<" ", "Department", " ">>]
HeaderNoKpi == [FullHeader EXCEPT ![Len(RecordKeys)] = <<"KPI">>]
HeaderNoDept == [FullHeader EXCEPT ![1] = <<"Dept">>]
dataRow(department) ==
    [h \in DOMAIN RecordKeys |->
        IF h = 1 THEN department ELSE IF h = 2 THEN <<"n", " ">> ELSE <<>>]
BlankRow == [h \in DOMAIN RecordKeys |-> <<>>]

FirstSheetRows == {TitleRow, PaddedHeader, HeaderNoKpi, HeaderNoDept}

LaterSheetRows ==
    {FullHeader, HeaderNoKpi, BlankRow} \cup {dataRow(d) : d \in DepartmentNames}

AddSheetRow ==
    /\ Len(attendanceValues) < MaxSheetRows
    /\ \E row \in LaterSheetRows : attendanceValues' = Append(attendanceValues, row)
    /\ attendanceData' = <<>>
    /\ deptLog' = <<>>
    /\ UNCHANGED <<deptEmailsValues, flatVars, mailVars>>

SheetEmailHeaders == EmailHeaderChoices \cup {<<<<"Dept">>, <<"Emails">>>>}

SheetEmailRows == {<<<<"A">>, <<"a@m">>>>, <<<<"B">>, <<" ">>>>}

\* The dept_emails sheet gets its one data row.
AddSheetEmailRow ==
    /\ Len(deptEmailsValues) = 1
    /\ \E row \in SheetEmailRows :
          deptEmailsValues' = Append(deptEmailsValues,
              IF indexOf(deptEmailsValues[1], <<"Department">>) = 1
              THEN <<row[2], row[1]>> ELSE row)
    /\ attendanceData' = <<>>
    /\ deptLog' = <<>>
    /\ UNCHANGED <<attendanceValues, flatVars, mailVars>>

\* One whole run on the sheets.
SheetRun ==
    /\ \E attendance \in {getAttendanceRows_(attendanceValues)} :
          /\ attendanceData' = attendance.records
          /\ \E failing \in SUBSET DepartmentNames :
                /\ failing \subseteq {attendance.records[n]["Department"] :
                                         n \in DOMAIN attendance.records}
                /\ sendAttendancePerDepartment(attendance, failing)
    /\ UNCHANGED <<attendanceValues, deptEmailsValues, flatVars, mailVars>>

NextSheets == AddSheetRow \/ AddSheetEmailRow \/ SheetRun

SheetRunMade == Len(deptLog) = 1

\* The cell holds the word, with blanks around it at most.
IsText(cell, word) ==
    \E i \in DOMAIN cell : cell[i] = word /\ \A j \in DOMAIN cell \ {i} : cell[j] = " "

RowHas(row, word) == \E c \in DOMAIN row : IsText(row[c], word)

SentinelRows ==
    {i \in DOMAIN attendanceValues : RowHas(attendanceValues[i], "Department")}

\* The header row of the Attendance sheet: the first with the sentinel.
HeaderRow == CHOOSE i \in SentinelRows : \A j \in SentinelRows : i <= j

NoSentinelRow == SentinelRows = {}

HeaderLacksField ==
    /\ SentinelRows # {}
    /\ \E h \in DOMAIN RecordKeys : ~RowHas(attendanceValues[HeaderRow], RecordKeys[h])

EmailsLackHeader ==
    \/ ~RowHas(deptEmailsValues[1], "Department")
    \/ ~RowHas(deptEmailsValues[1], "Emails")

\* The rows under the header row that are not blank: the records.
RecordRows ==
    IF SentinelRows = {} THEN {}
    ELSE {i \in DOMAIN attendanceValues :
             i > HeaderRow /\ \E c \in DOMAIN attendanceValues[i] :
                                 attendanceValues[i][c] # <<>>}

NoEmailAttempted ==
    /\ deptLog[1].counts.emailsSent = 0
    /\ \A e \in DOMAIN RunEvents : RunEvents[e].what \notin {"sent", "failed"}

\* C13 (as claimed): a run on an Attendance table with no sentinel row or
\* with a header row that lacks a required field, or on a dept_emails
\* table that lacks its Department or Emails header, does not complete: it
\* fails as a whole; and it sends no department email.
C13_StructuralErrorFailsRun ==
    (SheetRunMade /\ (NoSentinelRow \/ HeaderLacksField \/ EmailsLackHeader)) =>
        /\ deptLog[1].outcome # "complete"
        /\ NoEmailAttempted

\* C13 (amended): such a run sends no department email.  It ends in the
\* fatal-error report when the Attendance table is the faulty one and has
\* more than one row, and when the dept_emails table is the faulty one,
\* has more than one row and the Attendance table gave a record.  A faulty
\* Attendance table of one row, and a sound one that gives no record, end
\* the run with the no-data notice; a faulty dept_emails table of one row
\* lets the run complete with every department skipped for want of an
\* email.
C13_StructuralErrorSendsNothing ==
    (SheetRunMade /\ (NoSentinelRow \/ HeaderLacksField \/ EmailsLackHeader)) =>
        /\ NoEmailAttempted
        /\ deptLog[1].outcome =
              (IF NoSentinelRow \/ HeaderLacksField
               THEN (IF Len(attendanceValues) > 1 THEN "fatal" ELSE "noData")
               ELSE IF RecordRows = {} THEN "noData"
               ELSE IF Len(deptEmailsValues) > 1 THEN "fatal"
               ELSE "complete")
        /\ deptLog[1].outcome = "complete" =>
              \A e \in DOMAIN RunEvents : RunEvents[e].what = "skippedNoEmail"

\* C13 witness: a run ended in the fatal-error report on an Attendance
\* table whose header row, under a title row, lacks a field and has a row
\* of data under it, the dept_emails table being sound and mapping the
\* department of that row.
C13_Witness ==
    /\ SheetRunMade
    /\ deptLog[1].outcome = "fatal"
    /\ HeaderLacksField /\ HeaderRow > 1 /\ RecordRows # {}
    /\ ~EmailsLackHeader
    /\ \E i \in RecordRows : attendanceValues[i][1] \in DOMAIN MappingTable

---------------------------------------------------------------------------
(* groupRowsByDepartment_ on its own: record lists of every make-up, the   *)
(* department of a record being an ordinary name, a name that objects      *)
(* inherit, or empty.                                                      *)

GroupDepartmentNames == DepartmentNames \cup {<<"constructor">>}

AddGroupRecord ==
    /\ Len(attendanceData) < MaxRecords
    /\ \E department \in GroupDepartmentNames \cup {<<>>} :
          attendanceData' = Append(attendanceData,
              [Department |-> department, Name |-> Len(attendanceData) + 1])
    /\ deptLog' = <<>>
    /\ UNCHANGED <<attendanceValues, deptEmailsValues, flatVars, mailVars>>

GroupRun ==
    /\ deptLog' = <<[outcome |-> "grouped",
                     grouped |-> groupRowsByDepartment_(attendanceData)]>>
    /\ UNCHANGED <<attendanceValues, attendanceData, deptEmailsValues, flatVars, mailVars>>

NextGroup == AddGroupRecord \/ GroupRun

Grouped == Len(deptLog) = 1 /\ deptLog[1].outcome = "grouped"

\* The records of department d, in source order.
RecordsOf(d) == SelectSeq(attendanceData, LAMBDA r : r.Department = d)

\* C11 (as claimed): groupRowsByDepartment_ maps each non-empty department
\* name to exactly the records of that department in source order, and
\* every record with a non-empty department is in exactly one group,
\* exactly once.
C11_GroupsHoldTheirRecords ==
    Grouped =>
        LET g == deptLog[1].grouped
        IN  /\ g.ok
            /\ DOMAIN g.rows = DeptsWithData
            /\ \A d \in DOMAIN g.rows : g.rows[d] = RecordsOf(d)
            /\ \A n \in DOMAIN attendanceData :
                  attendanceData[n].Department # <<>> =>
                     Cardinality({p \in (DOMAIN g.rows) \X (1..Len(attendanceData)) :
                                     /\ p[2] \in DOMAIN g.rows[p[1]]
                                     /\ g.rows[p[1]][p[2]] = attendanceData[n]}) = 1

---------------------------------------------------------------------------
(* toCsvBlob_.  A string is again the sequence of its parts: a part is a   *)
(* comma, a double quote, a line feed, or a word free of the three.  An    *)
(* attendance record maps each of the keys of RecordKeys to a string.      *)

COMMA == ","
QUOTE == "\""
NEWLINE == "\n"

\* value.includes(part)
includes(value, part) == \E i \in DOMAIN value : value[i] = part

\* value.replace(/"/g, '""')
RECURSIVE doubleQuotes(_)
doubleQuotes(value) ==
    IF value = <<>> THEN <<>>
    ELSE (IF Head(value) = QUOTE THEN <<QUOTE, QUOTE>> ELSE <<Head(value)>>)
         \o doubleQuotes(Tail(value))

\* The callback of headers.map: the text of one value in the CSV.
csvValue(value) ==
    IF includes(value, COMMA) \/ includes(value, NEWLINE)
    THEN <<QUOTE>> \o doubleQuotes(value) \o <<QUOTE>>
    ELSE value

\* strings.join(",")
RECURSIVE join(_)
join(strings) ==
    IF strings = <<>> THEN <<>>
    ELSE IF Len(strings) = 1 THEN Head(strings)
    ELSE Head(strings) \o <<COMMA>> \o join(Tail(strings))

\* The loop over the rows: one line per row.
RECURSIVE csvLines(_, _)
csvLines(rows, headers_) ==
    IF rows = <<>> THEN <<>>
    ELSE join([h \in DOMAIN headers_ |-> csvValue(Head(rows)[headers_[h]])])
         \o <<NEWLINE>> \o csvLines(Tail(rows), headers_)

\* toCsvBlob_: the text of the blob; null for no rows.
toCsvBlob_(rows) ==
    IF Len(rows) = 0 THEN [null |-> TRUE, text |-> <<>>]
    ELSE [null |-> FALSE,
          text |-> join([h \in DOMAIN RecordKeys |-> <<RecordKeys[h]>>])
                   \o <<NEWLINE>> \o csvLines(rows, RecordKeys)]

\* The strings of at most n parts that a trimmed cell can hold: a line
\* feed is neither their first nor their last part.
CsvParts == {"a", COMMA, QUOTE, NEWLINE}

RECURSIVE PartStrings(_)
PartStrings(n) ==
    IF n = 0 THEN {<<>>}
    ELSE PartStrings(n - 1)
         \cup {Append(str, c) : str \in {x \in PartStrings(n - 1) : Len(x) = n - 1},
                                c \in CsvParts}

TrimmedStrings(n) ==
    {str \in PartStrings(n) :
        str # <<>> => (Head(str) # NEWLINE /\ str[Len(str)] # NEWLINE)}

\* A record with the string value under the key of position pos, and a
\* department, a name and nothing else beside it.
csvRecord(pos, value) ==
    [k \in {RecordKeys[h] : h \in DOMAIN RecordKeys} |->
        IF k = RecordKeys[pos] THEN value
        ELSE IF k = "Department" THEN <<"A">>
        ELSE IF k = "Name" THEN <<"n">>
        ELSE <<>>]

\* The first record takes every trimmed string under its first, its second
\* or its last key; the records after it one of three strings.
LaterCsvValues == {<<"a">>, <<QUOTE>>, <<"a", COMMA, QUOTE>>}

AddCsvRecord ==
    /\ Len(attendanceData) < MaxCsvRows
    /\ \E pos \in {1, 2, Len(RecordKeys)} :
          \E value \in (IF attendanceData = <<>> THEN TrimmedStrings(MaxCsvLen)
                        ELSE LaterCsvValues) :
             attendanceData' = Append(attendanceData, csvRecord(pos, value))
    /\ deptLog' = <<>>
    /\ UNCHANGED <<attendanceValues, deptEmailsValues, flatVars, mailVars>>

CsvRun ==
    /\ deptLog' = <<[outcome |-> "csv", blob |-> toCsvBlob_(attendanceData)]>>
    /\ UNCHANGED <<attendanceValues, attendanceData, deptEmailsValues, flatVars, mailVars>>

NextCsv == AddCsvRecord \/ CsvRun

\* Reading comma-delimited text with quoted fields (RFC 4180), from part i
\* on.  mode is "record" at the start of a record, "field" at the start of
\* a later field, "plain" inside an unquoted field, "quoted" inside a
\* quoted one and "closed" after its closing quote; a quote inside an
\* unquoted field, and text after a closing quote, are taken literally.
RECURSIVE csvParse(_, _, _, _, _, _)
csvParse(text, i, mode, field, row, rows) ==
    IF i > Len(text)
    THEN IF mode = "record" THEN rows ELSE Append(rows, Append(row, field))
    ELSE LET c == text[i]
         IN  IF mode = "quoted"
             THEN IF c = QUOTE
                  THEN IF i < Len(text) /\ text[i + 1] = QUOTE
                       THEN csvParse(text, i + 2, "quoted", Append(field, QUOTE), row, rows)
                       ELSE csvParse(text, i + 1, "closed", field, row, rows)
                  ELSE csvParse(text, i + 1, "quoted", Append(field, c), row, rows)
             ELSE IF c = COMMA
             THEN csvParse(text, i + 1, "field", <<>>, Append(row, field), rows)
             ELSE IF c = NEWLINE
             THEN csvParse(text, i + 1, "record", <<>>, <<>>,
                           Append(rows, Append(row, field)))
             ELSE IF c = QUOTE /\ mode \in {"record", "field"}
             THEN csvParse(text, i + 1, "quoted", field, row, rows)
             ELSE csvParse(text, i + 1, IF mode = "closed" THEN "closed" ELSE "plain",
                           Append(field, c), row, rows)

CsvMade == Len(deptLog) = 1 /\ deptLog[1].outcome = "csv" /\ ~deptLog[1].blob.null

\* The values of the records, row by row in key order, under the keys.
RecordValues ==
    <<[h \in DOMAIN RecordKeys |-> <<RecordKeys[h]>>]>>
    \o [n \in DOMAIN attendanceData |->
           [h \in DOMAIN RecordKeys |-> attendanceData[n][RecordKeys[h]]]]

\* C12 (as claimed): reading the text toCsvBlob_ makes of a list of records
\* with the rules of comma-delimited quoted fields gives back the keys and
\* the values of the records exactly.
C12_CsvRoundTrip ==
    CsvMade =>
        csvParse(deptLog[1].blob.text, 1, "record", <<>>, <<>>, <<>>) = RecordValues

---------------------------------------------------------------------------
(* buildHtmlTable_: the text of the cells of the table body.  A string is  *)
(* here the sequence of its characters.  A number is a decimal fraction    *)
(* N / 10^k with a sign, or NaN: the numbers that parseFloat reads from    *)
(* the digits of the model.                                                *)

Digits == {"0", "5", "9"}

digitValue(c) == IF c = "0" THEN 0 ELSE IF c = "5" THEN 5 ELSE 9

DigitChars == <<"0", "1", "2", "3", "4", "5", "6", "7", "8", "9">>

RECURSIVE Pow10(_)
Pow10(k) == IF k = 0 THEN 1 ELSE 10 * Pow10(k - 1)

\* The length of the run of digits of str that starts at position i.
RECURSIVE digitRun(_, _)
digitRun(str, i) ==
    IF i <= Len(str) /\ str[i] \in Digits THEN 1 + digitRun(str, i + 1) ELSE 0

\* The number written by the digits str[i..j], skipping position skip.
RECURSIVE numeral(_, _, _, _)
numeral(str, i, j, skip) ==
    IF j < i THEN 0
    ELSE IF j = skip THEN numeral(str, i, j - 1, skip)
    ELSE 10 * numeral(str, i, j - 1, skip) + digitValue(str[j])

NotANumber == [nan |-> TRUE, neg |-> FALSE, N |-> 0, k |-> 0]

\* parseFloat(string): an optional sign, digits, an optional point and
\* digits, read from the start as far as they go; NaN when no digit is
\* read.  What follows the number is ignored.
parseFloat(str) ==
    LET neg == str # <<>> /\ str[1] = "-"
        start == IF neg THEN 2 ELSE 1
        ni == digitRun(str, start)
        point == start + ni
        nf == IF point <= Len(str) /\ str[point] = "."
              THEN digitRun(str, point + 1) ELSE 0
    IN  IF ni + nf = 0 THEN NotANumber
        ELSE [nan |-> FALSE, neg |-> neg,
              N |-> numeral(str, start, point + nf, point), k |-> nf]

\* The halves h = T / 1000 (T given) among the numbers of the model whose
\* product h * 100 in binary floating point is below, or above, the exact
\* product T / 10.
ProductBelowHalf == {9905, 9995}
ProductAboveHalf == {555, 9005, 9095, 9505, 9595}

\* Math.round(numericValue * 100): the magnitude of the result; Math.round
\* takes a half to the integer above it.
\* (faulty variant: the product is cut off, not rounded)
mathFloorTimes100(num) == (100 * num.N) \div Pow10(num.k)
mathRoundTimes100(num) ==
    LET scale == Pow10(num.k)
        twice == 200 * num.N
        half == (twice % (2 * scale)) = scale
        T == (1000 * num.N) \div scale
        up == (twice + scale) \div (2 * scale)
    IN  IF ~half THEN up
        ELSE IF num.neg THEN (IF T \in ProductAboveHalf THEN up ELSE up - 1)
        ELSE (IF T \in ProductBelowHalf THEN up - 1 ELSE up)

\* The text of a natural number.
RECURSIVE toText(_)
toText(n) ==
    IF n < 10 THEN <<DigitChars[n + 1]>>
    ELSE toText(n \div 10) \o <<DigitChars[(n % 10) + 1]>>

\* isNaN(numericValue) || numericValue === 0 ? '0%' : `${Math.round(...)}%`
kpiText(cellValue) ==
    LET numericValue == parseFloat(cellValue)
    IN  IF numericValue.nan \/ numericValue.N = 0 THEN <<"0", "%">>
        ELSE LET rounded == mathRoundTimes100(numericValue)
             IN  (IF numericValue.neg /\ rounded > 0 THEN <<"-">> ELSE <<>>)
                 \o toText(rounded) \o <<"%">>

\* const displayHeaders = headers.filter(header => header !== "Department")
displayHeaders == SelectSeq(RecordKeys, LAMBDA header : header # "Department")

\* The body of the loop over displayHeaders: the text put into the cell.
cellTextOf(row, header) ==
    LET cellValue == row[header]
        shown == IF header = "Name" THEN cellValue
                 ELSE IF header = "KPI (%)" THEN kpiText(cellValue)
                 ELSE cellValue
    IN  IF shown = <<>> THEN <<"0">> ELSE shown

\* buildHtmlTable_: per row, the texts of its cells.
buildHtmlTable_(rows) ==
    [n \in DOMAIN rows |->
        [h \in DOMAIN displayHeaders |-> cellTextOf(rows[n], displayHeaders[h])]]

\* The strings of at most n digits.
RECURSIVE DigitStrings(_)
DigitStrings(n) ==
    IF n = 0 THEN {<<>>}
    ELSE DigitStrings(n - 1)
         \cup {Append(str, c) : str \in {x \in DigitStrings(n - 1) : Len(x) = n - 1},
                                c \in Digits}

\* What can follow the number in a KPI (%) cell: nothing, a percent sign,
\* other text.
KpiTails == {<<>>, <<"%">>, <<"a", "5">>}

\* The KPI (%) cells of the model, by their make-up: a sign or none, the
\* digits before the point, the point or none, the digits after it, and
\* the tail.
KpiInputs ==
    {st \in [neg : BOOLEAN, int : DigitStrings(MaxIntDigits), point : BOOLEAN,
             frac : DigitStrings(MaxFracDigits), tail : KpiTails] :
        st.frac # <<>> => st.point}

KpiTextOf(st) ==
    (IF st.neg THEN <<"-">> ELSE <<>>) \o st.int
    \o (IF st.point THEN <<".">> ELSE <<>>) \o st.frac \o st.tail

\* A record with the given KPI (%) and Attendance cells; its KPI Leave and
\* face scan cells are blank.
kpiRecord(kpi, attendance) ==
    [k \in {RecordKeys[h] : h \in DOMAIN RecordKeys} |->
        IF k = "KPI (%)" THEN kpi
        ELSE IF k = "Attendance" THEN attendance
        ELSE IF k = "Department" THEN <<"A">>
        ELSE IF k = "Name" THEN <<"n">>
        ELSE IF k = "Employee ID" THEN <<"9">>
        ELSE <<>>]

AttendanceCells == {<<>>, <<"0">>, <<"P">>}

\* buildHtmlTable_ is applied to the record; the make-up of its KPI (%)
\* cell is kept beside the result.
KpiRun ==
    /\ Len(deptLog) = 1 /\ deptLog[1].outcome = "input"
    /\ deptLog' = <<[outcome |-> "html", parts |-> deptLog[1].parts,
                     cells |-> buildHtmlTable_(attendanceData)]>>
    /\ UNCHANGED <<attendanceValues, attendanceData, deptEmailsValues, flatVars, mailVars>>

NextKpi == KpiRun

HtmlMade == Len(deptLog) = 1 /\ deptLog[1].outcome = "html"

\* The rendered cell under a header in row n.
RenderedCell(n, header) ==
    deptLog[1].cells[n][CHOOSE h \in DOMAIN displayHeaders : displayHeaders[h] = header]

RECURSIVE ValueOfDigits(_)
ValueOfDigits(digits) ==
    IF digits = <<>> THEN 0
    ELSE 10 * ValueOfDigits(SubSeq(digits, 1, Len(digits) - 1))
         + digitValue(digits[Len(digits)])

---------------------------------------------------------------------------
(* The specifications, one per script.  A script starts on fresh sheets    *)
(* (empty target sheet and Z1, marker never set, no run recorded); the     *)
(* variables of the other scripts keep these values.                       *)

InitFlatten ==
    /\ sourceCols \in SourceWidths
    /\ source = <<>>
    /\ target = <<>>
    /\ Z1 = EmptyCell
    /\ flatLog = <<>>
    /\ running = <<>>
    /\ timestampCell = EmptyCell
    /\ lastSentTicketTimestamp = NullString
    /\ outbox = <<>>
    /\ mailLog = <<>>
    /\ attendanceValues = <<>>
    /\ attendanceData = <<>>
    /\ deptEmailsValues = <<>>
    /\ deptLog = <<>>

NextFlatten == AppendSourceRow \/ FlattenRun

SpecFlatten == InitFlatten /\ [][NextFlatten]_vars

InitOverlap ==
    /\ sourceCols = EXPECTED_TOTAL_COLS
    /\ source = <<>>
    /\ target = <<>>
    /\ Z1 = EmptyCell
    /\ flatLog = <<>>
    /\ running = [p \in Runners |-> NotStarted]
    /\ timestampCell = EmptyCell
    /\ lastSentTicketTimestamp = NullString
    /\ outbox = <<>>
    /\ mailLog = <<>>
    /\ attendanceValues = <<>>
    /\ attendanceData = <<>>
    /\ deptEmailsValues = <<>>
    /\ deptLog = <<>>

SpecOverlap == InitOverlap /\ [][NextOverlap]_vars

InitWeekly ==
    /\ sourceCols = EXPECTED_TOTAL_COLS
    /\ source = <<>>
    /\ target = <<>>
    /\ Z1 = EmptyCell
    /\ flatLog = <<>>
    /\ running = <<>>
    /\ timestampCell \in A1Values
    /\ lastSentTicketTimestamp = NullString
    /\ outbox = <<>>
    /\ mailLog = <<>>
    /\ attendanceValues = <<>>
    /\ attendanceData = <<>>
    /\ deptEmailsValues = <<>>
    /\ deptLog = <<>>

SpecWeekly == InitWeekly /\ [][NextWeekly]_vars

InitStore ==
    /\ sourceCols = EXPECTED_TOTAL_COLS
    /\ \E r \in OverlapRowChoices : source = <<r>>
    /\ target = <<>>
    /\ Z1 = EmptyCell
    /\ flatLog = <<>>
    /\ running = <<>>
    /\ timestampCell \in A1Values
    /\ lastSentTicketTimestamp = NullString
    /\ outbox = <<>>
    /\ mailLog = <<>>
    /\ attendanceValues = <<>>
    /\ attendanceData = <<>>
    /\ deptEmailsValues = <<>>
    /\ deptLog = <<>>

SpecStore == InitStore /\ [][NextStore]_vars

InitDept ==
    /\ sourceCols = EXPECTED_TOTAL_COLS
    /\ source = <<>>
    /\ target = <<>>
    /\ Z1 = EmptyCell
    /\ flatLog = <<>>
    /\ running = <<>>
    /\ timestampCell = EmptyCell
    /\ lastSentTicketTimestamp = NullString
    /\ outbox = <<>>
    /\ mailLog = <<>>
    /\ attendanceValues = <<>>
    /\ attendanceData = <<>>
    /\ \E hdr \in EmailHeaderChoices : deptEmailsValues = <<hdr>>
    /\ deptLog = <<>>

SpecDept == InitDept /\ [][NextDept]_vars

InitGroup ==
    /\ sourceCols = EXPECTED_TOTAL_COLS
    /\ source = <<>>
    /\ target = <<>>
    /\ Z1 = EmptyCell
    /\ flatLog = <<>>
    /\ running = <<>>
    /\ timestampCell = EmptyCell
    /\ lastSentTicketTimestamp = NullString
    /\ outbox = <<>>
    /\ mailLog = <<>>
    /\ attendanceValues = <<>>
    /\ attendanceData = <<>>
    /\ deptEmailsValues = <<>>
    /\ deptLog = <<>>

SpecGroup == InitGroup /\ [][NextGroup]_vars

InitSheets ==
    /\ sourceCols = EXPECTED_TOTAL_COLS
    /\ source = <<>>
    /\ target = <<>>
    /\ Z1 = EmptyCell
    /\ flatLog = <<>>
    /\ running = <<>>
    /\ timestampCell = EmptyCell
    /\ lastSentTicketTimestamp = NullString
    /\ outbox = <<>>
    /\ mailLog = <<>>
    /\ \E row \in FirstSheetRows : attendanceValues = <<row>>
    /\ attendanceData = <<>>
    /\ \E hdr \in SheetEmailHeaders : deptEmailsValues = <<hdr>>
    /\ deptLog = <<>>

SpecSheets == InitSheets /\ [][NextSheets]_vars

InitCsv ==
    /\ sourceCols = EXPECTED_TOTAL_COLS
    /\ source = <<>>
    /\ target = <<>>
    /\ Z1 = EmptyCell
    /\ flatLog = <<>>
    /\ running = <<>>
    /\ timestampCell = EmptyCell
    /\ lastSentTicketTimestamp = NullString
    /\ outbox = <<>>
    /\ mailLog = <<>>
    /\ attendanceValues = <<>>
    /\ attendanceData = <<>>
    /\ deptEmailsValues = <<>>
    /\ deptLog = <<>>

SpecCsv == InitCsv /\ [][NextCsv]_vars

InitKpi ==
    /\ sourceCols = EXPECTED_TOTAL_COLS
    /\ source = <<>>
    /\ target = <<>>
    /\ Z1 = EmptyCell
    /\ flatLog = <<>>
    /\ running = <<>>
    /\ timestampCell = EmptyCell
    /\ lastSentTicketTimestamp = NullString
    /\ outbox = <<>>
    /\ mailLog = <<>>
    /\ attendanceValues = <<>>
    /\ deptEmailsValues = <<>>
    /\ \E st \in KpiInputs : \E attendance \in AttendanceCells :
          /\ attendanceData = <<kpiRecord(KpiTextOf(st), attendance)>>
          /\ deptLog = <<[outcome |-> "input", parts |-> st]>>

SpecKpi == InitKpi /\ [][NextKpi]_vars

====
